---- MODULE Spec2Model ----
(***************************************************************************)
(* ndx-fscv: the three FSCV record types declared in                       *)
(* src/spec/create_extension_spec.py, the mock generators of               *)
(* src/pynwb/ndx_fscv/testing/mock.py that build and attach instances of   *)
(* them, and the write/read round trip of src/pynwb/tests/test_roundtrip.py*)
(*                                                                         *)
(* Conventions.  An optional Python value is a sequence: <<>> is None and  *)
(* <<v>> is the value v.  An object's identity is its index in objs (ids   *)
(* of reloaded objects continue after the in-memory ones).  A data array   *)
(* is its shape plus a token for how it was filled; float arguments that   *)
(* are whole numbers are integers (2140.0 is 2140), the others are kept as *)
(* their decimal text ("0.5").                                             *)
(***************************************************************************)
EXTENDS Integers, Sequences, FiniteSets, TLC

VARIABLES objs, files, gen, last, pc, disk, reloaded

vars == <<objs, files, gen, last, pc, disk, reloaded>>

(***************************** bounds **************************************)
\* objects one run may construct
MaxObjs == 3
\* containers one run may create
MaxFiles == 2
\* largest number_of_electrodes a caller passes
MaxElectrodes == 2

(***************************** options *************************************)
None == <<>>
Some(v) == <<v>>
Get(o) == o[1]
Range(s) == {s[i] : i \in DOMAIN s}
\* range with its upper end included (an off-by-one)
range_inclusive(a, b) == [i \in 1..(b - a + 1) |-> a + i - 1]
range(a, b) == [i \in 1..(b - a) |-> a + i - 1]

(***************************** the schema **********************************)
\* Declarations as a slip of the pen would leave them: the response series
\* linking to the derived series, the excitation series with the response's
\* unit or with sweep_rate optional, the background-subtracted series
\* linking to an excitation series.
fscv_response_series_linking_derived ==
    [ neurodata_type_def |-> "FSCVResponseSeries",
      neurodata_type_inc |-> "TimeSeries",
      data_shape |-> <<None, None>>,
      unit |-> "amperes",
      electrodes |-> TRUE,
      links |-> << [name |-> "excitation_series",
                    target_type |-> "FSCVBackgroundSubtractedSeries"] >>,
      attributes |-> << [name |-> "current_to_voltage_factor",
                         required |-> FALSE] >> ]

fscv_excitation_series_in_amperes ==
    [ neurodata_type_def |-> "FSCVExcitationSeries",
      neurodata_type_inc |-> "TimeSeries",
      data_shape |-> <<None>>,
      unit |-> "amperes",
      electrodes |-> FALSE,
      links |-> << >>,
      attributes |-> << [name |-> "scan_frequency", required |-> TRUE],
                        [name |-> "sweep_rate", required |-> TRUE],
                        [name |-> "waveform_shape", required |-> TRUE] >> ]

fscv_excitation_series_optional_sweep_rate ==
    [ neurodata_type_def |-> "FSCVExcitationSeries",
      neurodata_type_inc |-> "TimeSeries",
      data_shape |-> <<None>>,
      unit |-> "volts",
      electrodes |-> FALSE,
      links |-> << >>,
      attributes |-> << [name |-> "scan_frequency", required |-> TRUE],
                        [name |-> "sweep_rate", required |-> FALSE],
                        [name |-> "waveform_shape", required |-> TRUE] >> ]

fscv_background_subtracted_series_linking_excitation ==
    [ neurodata_type_def |-> "FSCVBackgroundSubtractedSeries",
      neurodata_type_inc |-> "TimeSeries",
      data_shape |-> <<None, None>>,
      unit |-> "amperes",
      electrodes |-> FALSE,
      links |-> << [name |-> "response_series",
                    target_type |-> "FSCVExcitationSeries"] >>,
      attributes |-> << >> ]

\* create_extension_spec.py: the three NWBGroupSpec declarations.  A record
\* keeps what the declaration states: the rank of `data` (the length of its
\* shape list), the fixed value of data's `unit` attribute, whether an
\* `electrodes` dataset is declared, the links and the attributes.
fscv_response_series ==
    [ neurodata_type_def |-> "FSCVResponseSeries",
      neurodata_type_inc |-> "TimeSeries",
      data_shape |-> <<None, None>>,
      unit |-> "amperes",
      electrodes |-> TRUE,
      links |-> << [name |-> "excitation_series",
                    target_type |-> "FSCVExcitationSeries"] >>,
      attributes |-> << [name |-> "current_to_voltage_factor",
                         required |-> FALSE] >> ]

fscv_excitation_series ==
    [ neurodata_type_def |-> "FSCVExcitationSeries",
      neurodata_type_inc |-> "TimeSeries",
      data_shape |-> <<None>>,
      unit |-> "volts",
      electrodes |-> FALSE,
      links |-> << >>,
      attributes |-> << [name |-> "scan_frequency", required |-> TRUE],
                        [name |-> "sweep_rate", required |-> TRUE],
                        [name |-> "waveform_shape", required |-> TRUE] >> ]

fscv_background_subtracted_series ==
    [ neurodata_type_def |-> "FSCVBackgroundSubtractedSeries",
      neurodata_type_inc |-> "TimeSeries",
      data_shape |-> <<None, None>>,
      unit |-> "amperes",
      electrodes |-> FALSE,
      links |-> << [name |-> "response_series",
                    target_type |-> "FSCVResponseSeries"] >>,
      attributes |-> << >> ]

new_data_types ==
    <<fscv_response_series, fscv_excitation_series,
      fscv_background_subtracted_series>>

TypeNames == {new_data_types[i].neurodata_type_def : i \in DOMAIN new_data_types}

\* ndx_fscv/__init__.py: get_class(name, "ndx-fscv") looks the type up in the
\* loaded namespace.
get_class(t) ==
    CHOOSE s \in Range(new_data_types) : s.neurodata_type_def = t

(***************************** constructors ********************************)
\* The keyword arguments of a constructor call: every argument a caller may
\* pass, None when it is not passed.
NoArgs ==
    [ name |-> <<"", 0>>, data |-> [shape |-> <<0>>, values |-> ""],
      rate |-> 0, unit |-> None,
      scan_frequency |-> None, sweep_rate |-> None, waveform_shape |-> None,
      current_to_voltage_factor |-> None,
      electrodes |-> None, excitation_series |-> None,
      response_series |-> None ]

\* The instance a successful construction yields: the fields the type
\* declares, the unit at the declared fixed value.
NewInstance(s, kw) ==
    [ neurodata_type |-> s.neurodata_type_def,
      name |-> kw.name, data |-> kw.data, rate |-> kw.rate,
      unit |-> s.unit,
      scan_frequency |-> kw.scan_frequency,
      sweep_rate |-> kw.sweep_rate,
      waveform_shape |-> kw.waveform_shape,
      current_to_voltage_factor |-> kw.current_to_voltage_factor,
      electrodes |-> IF s.electrodes THEN kw.electrodes ELSE None,
      excitation_series |->
          IF \E i \in DOMAIN s.links : s.links[i].name = "excitation_series"
          THEN kw.excitation_series ELSE None,
      response_series |->
          IF \E i \in DOMAIN s.links : s.links[i].name = "response_series"
          THEN kw.response_series ELSE None ]

MissingRequired(s, kw) ==
    \E i \in DOMAIN s.attributes :
        s.attributes[i].required /\ kw[s.attributes[i].name] = None

FixedValueOverridden(s, kw) ==
    kw.unit # None /\ Get(kw.unit) # s.unit

LinkTypeMismatch(heap, s, kw) ==
    \E i \in DOMAIN s.links :
        LET a == kw[s.links[i].name]
        IN  a # None /\ heap[Get(a)].neurodata_type # s.links[i].target_type

\* the dimension agreement left unchecked
ElectrodeCountUnchecked(s, kw) == FALSE

ElectrodeCountMismatch(s, kw) ==
    /\ s.electrodes
    /\ kw.electrodes # None
    /\ Len(Get(kw.electrodes).region) # kw.data.shape[2]

\* The constructor of a declared type: the per-field validation first
\* (required attributes, fixed values, link target types), then the
\* dimension agreement of data and electrode references.
Construct(heap, t, kw) ==
    LET s == get_class(t)
    IN  IF MissingRequired(s, kw)
          THEN [err |-> "MissingRequiredField", obj |-> None]
        ELSE IF FixedValueOverridden(s, kw)
          THEN [err |-> "FixedValueOverride", obj |-> None]
        ELSE IF LinkTypeMismatch(heap, s, kw)
          THEN [err |-> "TypeMismatch", obj |-> None]
        ELSE IF ElectrodeCountMismatch(s, kw)
          THEN [err |-> "ShapeMismatch", obj |-> None]
        ELSE [err |-> "", obj |-> Some(NewInstance(s, kw))]

(***************************** the container *******************************)
\* pynwb's mock_NWBFile(): an empty container.  stimulus and acquisition
\* list the attached objects in insertion order; electrodes is the number
\* of rows of the electrode table.
EmptyFile == [stimulus |-> <<>>, acquisition |-> <<>>, electrodes |-> 0]

mock_NWBFile(w) == [w EXCEPT !.files = Append(@, EmptyFile)]

\* the excitation series filed with the recordings
add_stimulus_as_acquisition(w, f, id) ==
    [w EXCEPT !.files[f].acquisition = Append(@, id)]

add_stimulus(w, f, id) ==
    [w EXCEPT !.files[f].stimulus = Append(@, id)]

add_acquisition(w, f, id) ==
    [w EXCEPT !.files[f].acquisition = Append(@, id)]

mock_ElectrodesTable(w, n_rows, f) ==
    [w EXCEPT !.files[f].electrodes = @ + n_rows]

create_electrode_table_region(f, region) ==
    [table |-> f, region |-> region]

\* pynwb's name_generator(prefix): the next unused name of that prefix.
Prefixes == {"fscv_excitation_series", "fscv_response_series",
             "fscv_background_subtracted_series"}

\* the bare prefix as the name of every object
name_generator_repeating(w, prefix) ==
    [ name |-> <<prefix, 1>>, w |-> w ]

name_generator(w, prefix) ==
    [ name |-> <<prefix, w.gen[prefix]>>,
      w |-> [w EXCEPT !.gen[prefix] = @ + 1] ]

(***************************** mock generators *****************************)
\* mock.py:47, the length of the excitation waveform
ExcitationSamples == 100
\* mock.py:161, the number of time points of a background-subtracted series
BackgroundSamples == 100
\* mock.py:67, the default number_of_samples
DefaultSamples == 100
\* mock.py:17-20, the defaults of mock_FSCVExcitationSeries
DefaultScanFrequency == 10
DefaultSweepRate == 400
DefaultExcitationRate == 2140

Result(w, ret, err) == [w |-> w, ret |-> ret, err |-> err]

\* The one element of a one-element set: Only({F(x) : x \in {e}}) is F(e)
\* with e evaluated once.
Only(S) == CHOOSE x \in S : TRUE

mock_FSCVExcitationSeries(w, scan_frequency, sweep_rate, waveform_shape, sampling_frequency, nwbfile) ==
    LET g == name_generator(w, "fscv_excitation_series")
        c == Construct(g.w.objs, "FSCVExcitationSeries",
                [NoArgs EXCEPT
                    !.name = g.name,
                    !.data = [shape |-> <<ExcitationSamples>>,
                              values |-> "linspace"],
                    !.rate = sampling_frequency,
                    !.unit = Some("volts"),
                    !.scan_frequency = Some(scan_frequency),
                    !.sweep_rate = Some(sweep_rate),
                    !.waveform_shape = Some(waveform_shape)])
    IN  IF c.err # "" THEN Result(g.w, None, c.err)
        ELSE LET id == Len(g.w.objs) + 1
                 w1 == [g.w EXCEPT !.objs = Append(@, Get(c.obj))]
                 w2 == IF nwbfile # None
                       THEN add_stimulus(w1, Get(nwbfile), id) ELSE w1
             IN  Result(w2, Some(id), "")

mock_FSCVResponseSeries(w, number_of_electrodes, number_of_samples, current_to_voltage_factor, sampling_frequency, excitation_series, nwbfile) ==
    LET w0 == IF nwbfile = None THEN mock_NWBFile(w) ELSE w
        f == IF nwbfile = None THEN Len(w.files) + 1 ELSE Get(nwbfile)
        w1 == mock_ElectrodesTable(w0, number_of_electrodes, f)
        fscv_electrodes ==
            create_electrode_table_region(f, range(0, number_of_electrodes))
        \* mock.py:109-122, e the excitation series of lines 107-108
        Rest(e) ==
            IF e.err # "" THEN Result(e.w, None, e.err)
            ELSE
            LET g == name_generator(e.w, "fscv_response_series")
                c == Construct(g.w.objs, "FSCVResponseSeries",
                        [NoArgs EXCEPT
                            !.name = g.name,
                            !.data = [shape |-> <<number_of_samples,
                                                  number_of_electrodes>>,
                                      values |-> "rand"],
                            !.rate = sampling_frequency,
                            !.unit = Some("amperes"),
                            !.electrodes = Some(fscv_electrodes),
                            !.excitation_series = e.ret,
                            !.current_to_voltage_factor =
                                Some(current_to_voltage_factor)])
            IN  IF c.err # "" THEN Result(g.w, None, c.err)
                ELSE LET id == Len(g.w.objs) + 1
                         w2 == [g.w EXCEPT !.objs = Append(@, Get(c.obj))]
                     IN  Result(add_acquisition(w2, f, id), Some(id), "")
    IN  Only({Rest(e) : e \in
              {IF excitation_series = None
               THEN mock_FSCVExcitationSeries(w1, DefaultScanFrequency,
                        DefaultSweepRate, "Triangle", DefaultExcitationRate,
                        Some(f))
               ELSE Result(w1, excitation_series, "")}})

mock_FSCVBackgroundSubtractedSeries(w, number_of_electrodes, sampling_frequency, response_series, nwbfile) ==
    LET \* mock.py:161-172, r the response series of lines 155-160
        Rest(r) ==
            IF r.err # "" THEN Result(r.w, None, r.err)
            ELSE
            LET g == name_generator(r.w, "fscv_background_subtracted_series")
                c == Construct(g.w.objs, "FSCVBackgroundSubtractedSeries",
                        [NoArgs EXCEPT
                            !.name = g.name,
                            !.data = [shape |-> <<BackgroundSamples,
                                                  number_of_electrodes>>,
                                      values |-> "rand"],
                            !.rate = sampling_frequency,
                            !.unit = Some("amperes"),
                            !.response_series = r.ret])
            IN  IF c.err # "" THEN Result(g.w, None, c.err)
                ELSE LET id == Len(g.w.objs) + 1
                         w1 == [g.w EXCEPT !.objs = Append(@, Get(c.obj))]
                         w2 == IF nwbfile # None
                               THEN add_acquisition(w1, Get(nwbfile), id)
                               ELSE w1
                     IN  Result(w2, Some(id), "")
    IN  Only({Rest(r) : r \in
              {IF response_series = None
               THEN mock_FSCVResponseSeries(w, number_of_electrodes,
                        DefaultSamples, "0.5", sampling_frequency, None,
                        nwbfile)
               ELSE Result(w, response_series, "")}})

(***************************** state ***************************************)
World == [objs |-> objs, files |-> files, gen |-> gen]

Init ==
    /\ objs = <<>>
    /\ files = <<>>
    /\ gen = [p \in Prefixes |-> 1]
    /\ last = [op |-> "init", args |-> None, ret |-> None, err |-> ""]
    /\ pc = "build"
    /\ disk = None
    /\ reloaded = None

FileArgs == {None} \cup {Some(f) : f \in DOMAIN files}
OfType(t) == {i \in DOMAIN objs : objs[i].neurodata_type = t}
\* (number_of_samples, sampling_frequency) of a call: the defaults of
\* mock.py:67,69 and the values of test_constructors.py:21,23 with a second
\* sample count
Sampling == {<<100, 2140>>, <<50, 25000>>}
Rates == {sm[2] : sm \in Sampling}
Electrodes == 1..MaxElectrodes
\* mock.py:19, the default waveform_shape
Waveforms == {"Triangle"}

\* An error is surfaced to the caller and not recovered: the run that made
\* the call ends there.
Raise(err) == IF err = "" THEN pc ELSE "raised"

Commit(r, op, args) ==
    /\ objs' = r.w.objs
    /\ files' = r.w.files
    /\ gen' = r.w.gen
    /\ last' = [op |-> op, args |-> args, ret |-> r.ret, err |-> r.err]
    /\ pc' = Raise(r.err)
    /\ UNCHANGED <<disk, reloaded>>

\* test_roundtrip.py:17, the test's own container
NewFile ==
    /\ pc = "build"
    /\ Len(files) < MaxFiles
    /\ files' = Append(files, EmptyFile)
    /\ last' = [op |-> "mock_NWBFile", args |-> None,
                ret |-> Some(Len(files) + 1), err |-> ""]
    /\ UNCHANGED <<objs, gen, pc, disk, reloaded>>

MockExcitation ==
    /\ pc = "build"
    /\ Len(objs) < MaxObjs
    /\ \E nwbfile \in FileArgs, wf \in Waveforms :
       \E r \in {mock_FSCVExcitationSeries(World, DefaultScanFrequency,
                    DefaultSweepRate, wf, DefaultExcitationRate, nwbfile)} :
         Commit(r, "mock_FSCVExcitationSeries",
                [scan_frequency |-> DefaultScanFrequency,
                 sweep_rate |-> DefaultSweepRate,
                 waveform_shape |-> wf,
                 sampling_frequency |-> DefaultExcitationRate,
                 nwbfile |-> nwbfile])

MockResponse ==
    /\ pc = "build"
    /\ \E n \in Electrodes, sm \in Sampling,
          ex \in {None} \cup {Some(i) : i \in OfType("FSCVExcitationSeries")},
          nwbfile \in FileArgs :
         /\ Len(objs) + (IF ex = None THEN 2 ELSE 1) <= MaxObjs
         /\ Len(files) + (IF nwbfile = None THEN 1 ELSE 0) <= MaxFiles
         /\ \E r \in {mock_FSCVResponseSeries(World, n, sm[1], "0.5",
                                                sm[2], ex, nwbfile)} :
            Commit(r, "mock_FSCVResponseSeries",
                   [number_of_electrodes |-> n, number_of_samples |-> sm[1],
                    current_to_voltage_factor |-> "0.5",
                    sampling_frequency |-> sm[2],
                    excitation_series |-> ex, nwbfile |-> nwbfile])

MockBackgroundSubtracted ==
    /\ pc = "build"
    /\ \E n \in Electrodes, sf \in Rates,
          rs \in {None} \cup {Some(i) : i \in OfType("FSCVResponseSeries")},
          nwbfile \in FileArgs :
         /\ Len(objs) + (IF rs = None THEN 3 ELSE 1) <= MaxObjs
         /\ Len(files) + (IF rs = None /\ nwbfile = None THEN 1 ELSE 0)
                <= MaxFiles
         /\ \E r \in {mock_FSCVBackgroundSubtractedSeries(World, n, sf,
                                                            rs, nwbfile)} :
            Commit(r, "mock_FSCVBackgroundSubtractedSeries",
                   [number_of_electrodes |-> n, sampling_frequency |-> sf,
                    response_series |-> rs, nwbfile |-> nwbfile])

(***************************** direct construction *************************)
\* Application code calling the three constructors itself, with any
\* combination of passed and omitted arguments.
Units == {Some("volts"), Some("amperes")}
AnyObject == {None} \cup {Some(i) : i \in DOMAIN objs}
Regions ==
    {None} \cup
    {Some(create_electrode_table_region(f, range(0, n))) :
        f \in DOMAIN files, n \in Electrodes}

Direct(t, kw) ==
    LET c == Construct(objs, t, kw)
    IN  /\ objs' = IF c.err = "" THEN Append(objs, Get(c.obj)) ELSE objs
        /\ last' = [op |-> t, args |-> kw,
                    ret |-> IF c.err = "" THEN Some(Len(objs) + 1) ELSE None,
                    err |-> c.err]
        /\ pc' = Raise(c.err)
        /\ UNCHANGED <<files, gen, disk, reloaded>>

NewExcitationSeries ==
    /\ pc = "build"
    /\ Len(objs) < MaxObjs
    /\ \E unit \in Units,
          scan \in {None, Some(DefaultScanFrequency)},
          sweep \in {None, Some(DefaultSweepRate)},
          wf \in {None, Some("Triangle")} :
         Direct("FSCVExcitationSeries",
                [NoArgs EXCEPT
                    !.name = <<"series", Len(objs) + 1>>,
                    !.data = [shape |-> <<ExcitationSamples>>,
                              values |-> "linspace"],
                    !.rate = DefaultExcitationRate,
                    !.unit = unit,
                    !.scan_frequency = scan,
                    !.sweep_rate = sweep,
                    !.waveform_shape = wf])

NewResponseSeries ==
    /\ pc = "build"
    /\ Len(objs) < MaxObjs
    /\ \E unit \in Units, n \in Electrodes,
          ctv \in {None, Some("0.5")},
          region \in Regions, ex \in AnyObject :
         /\ region # None =>
              Len(Get(region).region) <= files[Get(region).table].electrodes
         /\ Direct("FSCVResponseSeries",
                [NoArgs EXCEPT
                    !.name = <<"series", Len(objs) + 1>>,
                    !.data = [shape |-> <<DefaultSamples, n>>,
                              values |-> "rand"],
                    !.rate = DefaultExcitationRate,
                    !.unit = unit,
                    !.current_to_voltage_factor = ctv,
                    !.electrodes = region,
                    !.excitation_series = ex])

NewBackgroundSubtractedSeries ==
    /\ pc = "build"
    /\ Len(objs) < MaxObjs
    /\ \E unit \in Units, n \in Electrodes, rs \in AnyObject :
         Direct("FSCVBackgroundSubtractedSeries",
                [NoArgs EXCEPT
                    !.name = <<"series", Len(objs) + 1>>,
                    !.data = [shape |-> <<BackgroundSamples, n>>,
                              values |-> "rand"],
                    !.rate = DefaultExcitationRate,
                    !.unit = unit,
                    !.response_series = rs])

(***************************** round trip **********************************)
\* test_roundtrip.py:34-38.  The file keeps every attached object under its
\* area and name; a link is kept as the path (area, name) of its target and
\* an electrode region as its row indices into the file's electrode table.
AreaOf(f, id) ==
    IF id \in Range(files[f].stimulus) THEN "stimulus"
    ELSE IF id \in Range(files[f].acquisition) THEN "acquisition"
    ELSE "external"

StoredLink(f, link) ==
    IF link = None THEN None
    ELSE Some([area |-> AreaOf(f, Get(link)), name |-> objs[Get(link)].name])

StoredRegion(f, e) ==
    IF e = None THEN None
    ELSE Some([table |-> IF Get(e).table = f THEN "electrodes"
                         ELSE "external",
               region |-> Get(e).region])

Stored(f, id) ==
    [objs[id] EXCEPT
        !.excitation_series = StoredLink(f, @),
        !.response_series = StoredLink(f, @),
        !.electrodes = StoredRegion(f, @)]

Image(f) ==
    [ stimulus |-> [i \in DOMAIN files[f].stimulus |->
                        Stored(f, files[f].stimulus[i])],
      acquisition |-> [i \in DOMAIN files[f].acquisition |->
                        Stored(f, files[f].acquisition[i])],
      electrodes |-> files[f].electrodes ]

Write ==
    /\ pc = "build"
    /\ \E f \in DOMAIN files :
         /\ disk' = Some(Image(f))
         /\ last' = [op |-> "write", args |-> Some(f), ret |-> None,
                     err |-> ""]
    /\ pc' = "written"
    /\ UNCHANGED <<objs, files, gen, reloaded>>

\* Reading materialises every stored object under a new identity (the
\* stimulus area first, then the acquisition area), then resolves each
\* stored path against the objects just materialised.
Position(area, nm, img) ==
    LET seq == IF area = "stimulus" THEN img.stimulus ELSE img.acquisition
        off == IF area = "stimulus" THEN 0 ELSE Len(img.stimulus)
        hit == {i \in DOMAIN seq : seq[i].name = nm}
    IN  IF area \notin {"stimulus", "acquisition"} \/ hit = {} THEN 0
        ELSE off + CHOOSE i \in hit : TRUE

ResolveLink(base, img, link) ==
    IF link = None THEN None
    ELSE Some(base + Position(Get(link).area, Get(link).name, img))

Resolvable(img, link) ==
    link = None \/ Position(Get(link).area, Get(link).name, img) # 0

Materialise(base, img, o) ==
    [o EXCEPT
        !.excitation_series = ResolveLink(base, img, @),
        !.response_series = ResolveLink(base, img, @),
        !.electrodes = IF @ = None THEN None
                       ELSE Some([table |-> 0, region |-> Get(@).region])]

ReadBack(base, img) ==
    LET all == img.stimulus \o img.acquisition
        dangling == \E i \in DOMAIN all :
                        \/ ~Resolvable(img, all[i].excitation_series)
                        \/ ~Resolvable(img, all[i].response_series)
        misshapen == \E i \in DOMAIN all :
                        /\ all[i].electrodes # None
                        /\ Len(Get(all[i].electrodes).region)
                               # all[i].data.shape[2]
    IN  IF dangling THEN [err |-> "UnresolvedLink", file |-> None]
        ELSE IF misshapen THEN [err |-> "ShapeMismatch", file |-> None]
        ELSE [err |-> "",
              file |-> Some(
                [ base |-> base,
                  objs |-> [i \in DOMAIN all |-> Materialise(base, img, all[i])],
                  stimulus |-> [i \in DOMAIN img.stimulus |-> base + i],
                  acquisition |-> [i \in DOMAIN img.acquisition |->
                                      base + Len(img.stimulus) + i],
                  electrodes |-> img.electrodes ])]

Read ==
    /\ pc = "written"
    /\ LET r == ReadBack(Len(objs), Get(disk))
       IN  /\ reloaded' = r.file
           /\ last' = [op |-> "read", args |-> last.args, ret |-> None,
                       err |-> r.err]
    /\ pc' = "read"
    /\ UNCHANGED <<objs, files, gen, disk>>

\* The generators, the containers they fill and the round trip.
Next ==
    \/ NewFile
    \/ MockExcitation
    \/ MockResponse
    \/ MockBackgroundSubtracted
    \/ Write
    \/ Read

Spec == Init /\ [][Next]_vars

\* The constructors called directly.
NextCtor ==
    \/ NewExcitationSeries
    \/ NewResponseSeries
    \/ NewBackgroundSubtractedSeries

\* One container whose electrode table the application has filled (the
\* state after mock_NWBFile() and mock_ElectrodesTable(n_rows=MaxElectrodes)).
InitCtor ==
    /\ objs = <<>>
    /\ files = mock_ElectrodesTable(mock_NWBFile(
                    [objs |-> <<>>, files |-> <<>>, gen |-> <<>>]),
                    MaxElectrodes, 1).files
    /\ gen = [p \in Prefixes |-> 1]
    /\ last = [op |-> "init", args |-> None, ret |-> None, err |-> ""]
    /\ pc = "build"
    /\ disk = None
    /\ reloaded = None

SpecCtor == InitCtor /\ [][NextCtor]_vars

(***************************** claims: the constructors ********************)
Excitation == "FSCVExcitationSeries"
Response == "FSCVResponseSeries"
BackgroundSubtracted == "FSCVBackgroundSubtractedSeries"

DirectCall(t) == last.op = t
Returned == objs[Get(last.ret)]
TypeOf(link) == objs[Get(link)].neurodata_type

\* C1: every instance of the three types carries the unit fixed for its
\* type (volts for an excitation series, amperes for a response and a
\* background-subtracted series), whatever unit the caller passed: a call
\* that returns an instance returns one with the fixed unit.
C1_UnitIsFixed ==
    /\ \A i \in DOMAIN objs :
         /\ objs[i].neurodata_type = Excitation => objs[i].unit = "volts"
         /\ objs[i].neurodata_type = Response => objs[i].unit = "amperes"
         /\ objs[i].neurodata_type = BackgroundSubtracted
              => objs[i].unit = "amperes"
    /\ \A t \in TypeNames :
         DirectCall(t) /\ last.ret # None =>
             Returned.unit = (IF t = Excitation THEN "volts" ELSE "amperes")

\* C1 witness: with an excitation and a response series constructed, a
\* caller has passed the other unit to a constructor.
C1_Witness ==
    /\ \E i \in DOMAIN objs : objs[i].neurodata_type = Excitation
    /\ \E i \in DOMAIN objs : objs[i].neurodata_type = Response
    /\ DirectCall(BackgroundSubtracted)
    /\ last.args.unit = Some("volts")

\* C2: a response or background-subtracted series that carries electrode
\* references has as many data columns as referenced electrodes; a
\* constructor call whose data columns differ from the number of referenced
\* electrodes yields no instance, and fails with ShapeMismatch when nothing
\* else is wrong with the call.
C2_ColumnsMatchElectrodes ==
    /\ \A i \in DOMAIN objs :
         objs[i].neurodata_type \in {Response, BackgroundSubtracted}
         /\ objs[i].electrodes # None
         => objs[i].data.shape[2] = Len(Get(objs[i].electrodes).region)
    /\ DirectCall(Response)
       /\ last.args.electrodes # None
       /\ Len(Get(last.args.electrodes).region) # last.args.data.shape[2]
       => /\ last.ret = None
          /\ last.err # ""
          /\ ( /\ last.args.unit = Some("amperes")
               /\ ( last.args.excitation_series = None
                    \/ TypeOf(last.args.excitation_series) = Excitation )
               => last.err = "ShapeMismatch" )

\* C2 witness: a response series constructed with two electrodes and one
\* data column has failed with ShapeMismatch, and an instance with
\* electrode references exists.
C2_Witness ==
    /\ DirectCall(Response)
    /\ last.args.electrodes # None
    /\ Len(Get(last.args.electrodes).region) = 2
    /\ last.args.data.shape[2] = 1
    /\ last.err = "ShapeMismatch"
    /\ \E i \in DOMAIN objs : objs[i].electrodes # None

\* C5: a response series' excitation_series accepts only an
\* FSCVExcitationSeries and a background-subtracted series' response_series
\* only an FSCVResponseSeries: a call with a link argument of another type
\* yields no instance, and fails with TypeMismatch when the unit it passes
\* is the type's own.
C5_LinkArgumentsAreTypeChecked ==
    /\ DirectCall(Response)
       /\ last.args.excitation_series # None
       /\ TypeOf(last.args.excitation_series) # Excitation
       => /\ last.ret = None
          /\ last.err # ""
          /\ (last.args.unit = Some("amperes") => last.err = "TypeMismatch")
    /\ DirectCall(BackgroundSubtracted)
       /\ last.args.response_series # None
       /\ TypeOf(last.args.response_series) # Response
       => /\ last.ret = None
          /\ last.err # ""
          /\ (last.args.unit = Some("amperes") => last.err = "TypeMismatch")

\* C5 witness: a background-subtracted series given an excitation series as
\* its response_series has failed with TypeMismatch.
C5_Witness ==
    /\ DirectCall(BackgroundSubtracted)
    /\ last.args.response_series # None
    /\ TypeOf(last.args.response_series) = Excitation
    /\ last.err = "TypeMismatch"

\* C6: an excitation series constructed without scan_frequency, sweep_rate
\* or waveform_shape fails with MissingRequiredField; a response series
\* constructed without current_to_voltage_factor (and otherwise valid)
\* succeeds and has no such attribute, not 1.0; the three excitation
\* attributes, when supplied, are those of the instance.
C6_RequiredAndOptionalAttributes ==
    /\ DirectCall(Excitation)
       /\ ( \/ last.args.scan_frequency = None
            \/ last.args.sweep_rate = None
            \/ last.args.waveform_shape = None )
       => last.ret = None /\ last.err = "MissingRequiredField"
    /\ DirectCall(Response)
       /\ last.args.current_to_voltage_factor = None
       /\ last.err \notin {"FixedValueOverride", "TypeMismatch",
                           "ShapeMismatch"}
       => /\ last.ret # None
          /\ Returned.current_to_voltage_factor = None
          /\ Returned.current_to_voltage_factor # Some("1.0")
    /\ DirectCall(Excitation) /\ last.ret # None
       => /\ Returned.scan_frequency = last.args.scan_frequency
          /\ Returned.sweep_rate = last.args.sweep_rate
          /\ Returned.waveform_shape = last.args.waveform_shape
          /\ Returned.scan_frequency # None
          /\ Returned.sweep_rate # None
          /\ Returned.waveform_shape # None

\* C6 witness: a response series without current_to_voltage_factor and an
\* excitation series with its three attributes exist, and an excitation
\* series constructed without sweep_rate alone has failed.
C6_Witness ==
    /\ \E i \in DOMAIN objs :
         /\ objs[i].neurodata_type = Response
         /\ objs[i].current_to_voltage_factor = None
    /\ \E i \in DOMAIN objs :
         /\ objs[i].neurodata_type = Excitation
         /\ objs[i].scan_frequency = Some(DefaultScanFrequency)
         /\ objs[i].sweep_rate = Some(DefaultSweepRate)
         /\ objs[i].waveform_shape = Some("Triangle")
    /\ DirectCall(Excitation)
    /\ last.args.scan_frequency # None
    /\ last.args.sweep_rate = None
    /\ last.args.waveform_shape # None
    /\ last.err = "MissingRequiredField"

\* The number of links followed from object i to the end of its chain.
RECURSIVE Hops(_)
Hops(i) ==
    IF objs[i].response_series # None
      THEN 1 + Hops(Get(objs[i].response_series))
    ELSE IF objs[i].excitation_series # None
      THEN 1 + Hops(Get(objs[i].excitation_series))
    ELSE 0

\* C10: links run one way only: a background-subtracted series links only
\* to a response series (by response_series), a response series only to an
\* excitation series (by excitation_series), an excitation series to
\* nothing; every link points at an object constructed earlier, and no
\* chain of links is longer than two hops.
C10_LinksAreOneWay ==
    \A i \in DOMAIN objs :
      LET o == objs[i]
      IN  /\ o.neurodata_type = Excitation
             => o.excitation_series = None /\ o.response_series = None
          /\ o.neurodata_type = Response
             => /\ o.response_series = None
                /\ o.excitation_series # None
                   => TypeOf(o.excitation_series) = Excitation
          /\ o.neurodata_type = BackgroundSubtracted
             => /\ o.excitation_series = None
                /\ o.response_series # None
                   => TypeOf(o.response_series) = Response
          /\ o.excitation_series # None => Get(o.excitation_series) < i
          /\ o.response_series # None => Get(o.response_series) < i
          /\ Hops(i) <= 2

\* C10 witness: a chain background-subtracted -> response -> excitation
\* exists.
C10_Witness ==
    \E i \in DOMAIN objs :
        /\ objs[i].neurodata_type = BackgroundSubtracted
        /\ Hops(i) = 2

(***************************** claims: generators and containers ***********)
Attached(f, id) ==
    id \in Range(files[f].stimulus) \cup Range(files[f].acquisition)
AttachedSomewhere(id) == \E f \in DOMAIN files : Attached(f, id)
LinksOf(o) ==
    {Get(l) : l \in {o.excitation_series, o.response_series} \ {None}}
MockCall(op) == last.op = op

\* C4 (as claimed): no attached instance has a link whose target is outside
\* the container the instance is attached to.
C4_NoDanglingLinks ==
    \A f \in DOMAIN files : \A id \in DOMAIN objs :
        Attached(f, id) => \A t \in LinksOf(objs[id]) : Attached(f, t)

\* C7: mock_FSCVResponseSeries returns, for every number of electrodes n
\* and of samples m, with or without a container and an excitation series
\* supplied, a response series with data of shape (m, n), unit amperes, the
\* rate and current_to_voltage_factor passed, electrode references to
\* exactly n rows that exist in the container's table, and an
\* excitation_series link (the supplied series when one is supplied) to a
\* series with unit volts.
C7_MockResponseSeries ==
    MockCall("mock_FSCVResponseSeries") =>
      /\ last.err = ""
      /\ last.ret # None
      /\ LET o == Returned
             a == last.args
         IN  /\ o.neurodata_type = Response
             /\ o.data.shape = <<a.number_of_samples, a.number_of_electrodes>>
             /\ o.unit = "amperes"
             /\ o.rate = a.sampling_frequency
             /\ o.current_to_voltage_factor = Some(a.current_to_voltage_factor)
             /\ o.electrodes # None
             /\ Len(Get(o.electrodes).region) = a.number_of_electrodes
             /\ Cardinality(Range(Get(o.electrodes).region))
                    = a.number_of_electrodes
             /\ \A r \in Range(Get(o.electrodes).region) :
                    r \in 0..(files[Get(o.electrodes).table].electrodes - 1)
             /\ o.excitation_series # None
             /\ TypeOf(o.excitation_series) = Excitation
             /\ objs[Get(o.excitation_series)].unit = "volts"
             /\ a.excitation_series # None
                  => o.excitation_series = a.excitation_series

\* C7 witness: the generator has been called with two electrodes, fifty
\* samples, an excitation series supplied and no container.
C7_Witness ==
    /\ MockCall("mock_FSCVResponseSeries")
    /\ last.args.number_of_electrodes = 2
    /\ last.args.number_of_samples = 50
    /\ last.args.excitation_series # None
    /\ last.args.nwbfile = None
    /\ last.ret # None

\* C8 (as claimed): every call of mock_FSCVBackgroundSubtractedSeries
\* returns a series with data of shape (100, number_of_electrodes), unit
\* amperes, a response_series link to a series with unit amperes, and as
\* many data columns as the response series it links to.
C8_MockBackgroundSubtractedSeries ==
    MockCall("mock_FSCVBackgroundSubtractedSeries") =>
      /\ last.ret # None
      /\ LET o == Returned
             a == last.args
         IN  /\ o.data.shape = <<BackgroundSamples, a.number_of_electrodes>>
             /\ o.unit = "amperes"
             /\ o.response_series # None
             /\ objs[Get(o.response_series)].unit = "amperes"
             /\ o.data.shape[2]
                  = objs[Get(o.response_series)].data.shape[2]

\* Excitation series are stored under stimulus, response and
\* background-subtracted series under acquisition.
AreaDiscipline ==
    \A f \in DOMAIN files :
        /\ \A id \in Range(files[f].stimulus) :
               objs[id].neurodata_type = Excitation
        /\ \A id \in Range(files[f].acquisition) :
               objs[id].neurodata_type \in {Response, BackgroundSubtracted}

MockOps == {"mock_FSCVExcitationSeries", "mock_FSCVResponseSeries",
            "mock_FSCVBackgroundSubtractedSeries"}

\* C9 (as claimed): the areas are kept, and every series a generator
\* returns is attached to some container, and so is every series it links
\* to.
C9_AreasAndAlwaysAttached ==
    /\ AreaDiscipline
    /\ last.op \in MockOps /\ last.ret # None
       => /\ AttachedSomewhere(Get(last.ret))
          /\ \A t \in LinksOf(Returned) : AttachedSomewhere(t)

\* The container a generator call works on: the one supplied, or the one it
\* has just created.
ContainerOf(a) == IF a.nwbfile # None THEN Get(a.nwbfile) ELSE Len(files)

\* C9 (amended): the areas are kept; a response series a generator returns
\* is always in the acquisition area of its container (the one supplied, or
\* a new one), and an excitation series the generator made for it is in the
\* stimulus area of the same container; an excitation or
\* background-subtracted series a generator returns is attached exactly
\* when a container was supplied, and to that container; a response series
\* made for a background-subtracted series is attached as a response series
\* is.
C9_AreasAndAttachment ==
    /\ AreaDiscipline
    /\ MockCall("mock_FSCVExcitationSeries") /\ last.ret # None
       => IF last.args.nwbfile = None
          THEN ~AttachedSomewhere(Get(last.ret))
          ELSE Get(last.ret)
                 \in Range(files[Get(last.args.nwbfile)].stimulus)
    /\ MockCall("mock_FSCVResponseSeries") /\ last.ret # None
       => /\ Get(last.ret)
                 \in Range(files[ContainerOf(last.args)].acquisition)
          /\ last.args.excitation_series = None
               => Get(Returned.excitation_series)
                      \in Range(files[ContainerOf(last.args)].stimulus)
    /\ MockCall("mock_FSCVBackgroundSubtractedSeries") /\ last.ret # None
       => /\ IF last.args.nwbfile = None
             THEN ~AttachedSomewhere(Get(last.ret))
             ELSE Get(last.ret)
                    \in Range(files[Get(last.args.nwbfile)].acquisition)
          /\ last.args.response_series = None
               => Get(Returned.response_series)
                      \in Range(files[ContainerOf(last.args)].acquisition)

\* C9 witness: a background-subtracted series generated with neither a
\* response series nor a container: the response and excitation series
\* made for it are in a new container's acquisition and stimulus areas, the
\* returned series is in none.
C9_Witness ==
    /\ MockCall("mock_FSCVBackgroundSubtractedSeries")
    /\ last.args.nwbfile = None
    /\ last.args.response_series = None
    /\ last.ret # None
    /\ ~AttachedSomewhere(Get(last.ret))
    /\ \E f \in DOMAIN files :
         /\ Get(Returned.response_series) \in Range(files[f].acquisition)
         /\ Len(files[f].stimulus) = 1

(***************************** claims: the round trip **********************)
\* The identity under which the object attached to f as id is reloaded.
Counterpart(f, id) ==
    LET st == files[f].stimulus
        aq == files[f].acquisition
    IN  IF id \in Range(st)
        THEN Len(objs) + (CHOOSE i \in DOMAIN st : st[i] = id)
        ELSE Len(objs) + Len(st) + (CHOOSE i \in DOMAIN aq : aq[i] = id)

AttachedTo(f) == {id \in DOMAIN objs : Attached(f, id)}

SameFields(o, r) ==
    /\ r.neurodata_type = o.neurodata_type
    /\ r.name = o.name
    /\ r.data = o.data
    /\ r.unit = o.unit
    /\ r.rate = o.rate
    /\ r.scan_frequency = o.scan_frequency
    /\ r.sweep_rate = o.sweep_rate
    /\ r.waveform_shape = o.waveform_shape
    /\ r.current_to_voltage_factor = o.current_to_voltage_factor
    /\ (r.electrodes = None) = (o.electrodes = None)
    /\ o.electrodes # None
         => Get(r.electrodes).region = Get(o.electrodes).region

SameLink(f, l, rl) ==
    IF l = None THEN rl = None
    ELSE /\ rl = Some(Counterpart(f, Get(l)))
         /\ Get(rl) > Len(objs)

====
